---- MODULE Spec2Model ----
(***************************************************************************)
(* Model of the RAG document service of src/main.py: the three request     *)
(* handlers upload_document, query_document and list_documents, running    *)
(* concurrently against the shared stores they use: the MongoDB            *)
(* collection documents_collection (the Registry), the directory           *)
(* vector_stores/ (the persisted FAISS indexes) and the directory temp/.   *)
(* Every external call of a handler is one step; a step may raise.         *)
(***************************************************************************)
EXTENDS Integers, Sequences, FiniteSets, TLC

(* ------------------------------ bounds -------------------------------- *)
NumUploads == 2     \* upload_document requests
NumUuids   == 2     \* values uuid.uuid4() can return
MaxChunks  == 4     \* most chunks the splitter yields for one document

\* the upload_document requests, numbered in the order in which they arrive
Uploads == 1..NumUploads
UUIDs   == 1..NumUuids

(* ------------------------- program constants -------------------------- *)
RetrieverK == 3     \* search_kwargs={"k": 3}
ListLimit  == 100   \* to_list(length=100)

NONE == 0           \* Python None / a local not yet assigned

(* The uses uuid.uuid4() is put to: temp file name, Cloudinary public_id,  *)
(* document_id.                                                            *)
Namespaces == {"temp", "public_id", "document_id"}

(* file.filename as (stem, extension); the handler only looks at the end.  *)
Filenames == {<<"report", ".PDF">>, <<"notes", ".txt">>}

(* The bytes of an upload: nothing, bytes PDFium cannot parse, or a PDF.    *)
Contents == {"empty", "corrupt", "pdf"}

(* The numbers of chunks a PDF splits into: none, fewer than the retriever  *)
(* asks for, more than it asks for.                                        *)
ChunkCounts == {0, 2, MaxChunks}

VARIABLES
    unique_index,          \* documents_collection has the unique index on document_id
    documents_collection,  \* the Registry: sequence of records, in insertion order
    vector_stores,         \* persisted index at each path under vector_stores/
    temp,                  \* files that exist under temp/
    issued,                \* values uuid4() has returned so far, per use
    up,                    \* locals and position of each upload_document request
    rd,                    \* locals and position of the read request (query_document
                           \* or list_documents)
    splitter               \* one page text given to CharacterTextSplitter and the
                           \* chunks it returned

vars == <<unique_index, documents_collection, vector_stores, temp, issued, up, rd, splitter>>

(* ------------------------------ helpers ------------------------------- *)
Range(s) == {s[i] : i \in DOMAIN s}

Min(a, b) == IF a <= b THEN a ELSE b

\* str.lower() on the extensions that occur
lower(ext) == IF ext = ".PDF" THEN ".pdf" ELSE ext

\* file.filename.lower().endswith('.pdf')
IsPdfName(filename) == lower(filename[2]) = ".pdf"

\* uuid.uuid4(): a value not returned before for this use; the values are
\* opaque, so they are numbered in the order of issue.  For the uses in
\* collide the draw may repeat an earlier value (the collision the Registry
\* contract is about).
uuid4Any(ns, collide) == UUIDs

uuid4(ns, collide) ==
    IF ns \in collide THEN UUIDs
    ELSE {u \in UUIDs \ issued[ns] : \A v \in UUIDs \ issued[ns] : u <= v}

\* raise HTTPException(status_code, detail)
HTTPException(status, detail) ==
    [kind |-> "HTTPException", status |-> status, detail |-> detail]

\* any other exception, with its message
Error(msg) == [kind |-> "Exception", status |-> 0, detail |-> msg]

NoResponse == [status |-> 0, detail |-> "", body |-> <<>>]

\* the except clauses of upload_document: an HTTPException is re-raised,
\* anything else becomes a 500
upload_except(e) ==
    IF e.kind = "HTTPException"
    THEN [status |-> e.status, detail |-> e.detail, body |-> <<>>]
    ELSE [status |-> 500, detail |-> "Internal server error: " \o e.detail, body |-> <<>>]

\* str(HTTPException) is "<status>: <detail>"
StatusStr(s) == CASE s = 400 -> "400" [] s = 404 -> "404" [] s = 500 -> "500" [] OTHER -> "?"

str(e) == IF e.kind = "HTTPException" THEN StatusStr(e.status) \o ": " \o e.detail
          ELSE e.detail

\* the single except clause of query_document and of list_documents:
\* every exception, an HTTPException included, becomes a 500
query_except(e) ==
    [status |-> 500, detail |-> "Internal server error: " \o str(e), body |-> <<>>]

\* a handler returning normally
Ok(body) == [status |-> 200, detail |-> "OK", body |-> body]

\* the chunks split_documents yields for request r's document of n chunks
split_documents(r, n) == {<<r, i>> : i \in 1..n}

NoIndex == [state |-> "absent", chunks |-> {}]

\* cloudinary.uploader.upload result for public id p
UploadResult(p) ==
    [public_id |-> p, secure_url |-> <<"secure_url", p>>, created_at |-> <<"created_at", p>>]

NoLocals ==
    [pc |-> "idle", filename |-> <<"", "">>, content |-> "",
     temp_file_path |-> NONE, public_id |-> NONE, docs |-> {},
     document_id |-> NONE, embed_calls |-> 0, response |-> NoResponse]

\* one read request, a query or a listing, arriving at any moment: the read
\* handlers only read the stores, so a second one running beside it would
\* show nothing more.  A listing that was answered may be followed by one
\* more listing; then previous holds what the first listing returned, and
\* ingests the ingests that had reached insert_one when each was made.
NoReadLocals ==
    [handler |-> "", pc |-> "idle", document_id |-> NONE, document |-> <<>>, index_state |-> "",
     vector_store |-> {}, context |-> {}, embed_calls |-> 0, llm_calls |-> 0,
     response |-> NoResponse, ingests |-> {}, previous |-> <<>>]

\* the request r ends with the response resp; its index object is dropped
UpReturn(r, resp) == up' = [up EXCEPT ![r].pc = "done", ![r].docs = {}, ![r].response = resp]

(* ------------------------- CharacterTextSplitter ------------------------ *)
\* A page text is the sequence of the lengths of its pieces: the non-empty
\* stretches between the occurrences of the separator, the blank line "\n\n"
\* (no piece begins or ends with white space, so strip() changes nothing).
\* A chunk is the sequence of the pieces joined into it.

MaxPieces == 3

\* CharacterTextSplitter(chunk_size=1000, chunk_overlap=0)
chunk_size == 1000
chunk_overlap == 0
\* len(separator), separator = "\n\n" being the default of the class
separator_len == 2

PieceLengths == {300, 600, chunk_size, 2500}
Texts == UNION {[1..n -> PieceLengths] : n \in 1..MaxPieces}

RECURSIVE Sum(_)
Sum(seq) == IF seq = <<>> THEN 0 ELSE seq[1] + Sum(Tail(seq))

\* len(separator.join(pieces))
length_function(pieces) ==
    IF pieces = <<>> THEN 0 ELSE Sum(pieces) + separator_len * (Len(pieces) - 1)

\* the while loop of _merge_splits: drop pieces from the front of current_doc
\* until what is left is within the overlap and leaves room for the next piece
RECURSIVE pop(_, _, _)
pop(current_doc, total, len) ==
    IF \/ total > chunk_overlap
       \/ /\ total + len + (IF Len(current_doc) > 0 THEN separator_len ELSE 0) > chunk_size
          /\ total > 0
    THEN pop(Tail(current_doc),
             total - (current_doc[1] + (IF Len(current_doc) > 1 THEN separator_len ELSE 0)),
             len)
    ELSE [current_doc |-> current_doc, total |-> total]

\* _merge_splits: pieces are gathered into current_doc for as long as the
\* joined text fits chunk_size; a piece that is itself longer than chunk_size
\* is never cut (the library only logs a warning) and becomes a chunk whole
RECURSIVE merge_splits(_, _, _, _)
merge_splits(splits, current_doc, total, docs) ==
    IF splits = <<>>
    THEN IF current_doc = <<>> THEN docs ELSE Append(docs, current_doc)
    ELSE LET len   == splits[1]
             over  == total + len + (IF Len(current_doc) > 0 THEN separator_len ELSE 0)
                         > chunk_size
             emit  == over /\ Len(current_doc) > 0
             kept  == IF emit THEN pop(current_doc, total, len)
                              ELSE [current_doc |-> current_doc, total |-> total]
             doc   == Append(kept.current_doc, len)
         IN  merge_splits(Tail(splits), doc,
                          kept.total + len + (IF Len(doc) > 1 THEN separator_len ELSE 0),
                          IF emit THEN Append(docs, current_doc) ELSE docs)

\* split_text: split on the separator, then merge with the separator put
\* back between the pieces of one chunk
split_text(text) == merge_splits(text, <<>>, 0, <<>>)

NoSplit == [pc |-> "idle", text |-> <<>>, docs |-> <<>>]

\* document = PyPDFium2Loader(temp_file_path).load(): the text of a page
load ==
    /\ splitter.pc = "idle"
    /\ \E text \in Texts : splitter' = [pc |-> "loaded", text |-> text, docs |-> <<>>]
    /\ UNCHANGED <<unique_index, documents_collection, vector_stores, temp, issued, up, rd>>

\* docs = CharacterTextSplitter(chunk_size=1000, chunk_overlap=0).split_documents(document)
split_page ==
    /\ splitter.pc = "loaded"
    /\ splitter' = [splitter EXCEPT !.pc = "done", !.docs = split_text(splitter.text)]
    /\ UNCHANGED <<unique_index, documents_collection, vector_stores, temp, issued, up, rd>>

(* ------------------------------- Init --------------------------------- *)
\* The stores are empty and no request has arrived.  The unique index on
\* document_id is created by lifespan (line 78), but line 86 binds lifespan
\* to the attribute app.lifespan, which the framework does not read (the
\* handler has to be passed to FastAPI(lifespan=...)): the program never
\* creates the index, and the collection has it only if the database
\* already had it.
Init ==
    /\ unique_index \in BOOLEAN
    /\ documents_collection = <<>>
    /\ vector_stores = [p \in UUIDs |-> NoIndex]
    /\ temp = {}
    /\ issued = [ns \in Namespaces |-> {}]
    /\ up = [r \in Uploads |-> NoLocals]
    /\ rd = NoReadLocals
    /\ splitter = NoSplit

(* -------------------------- upload_document --------------------------- *)
\* issued, after uuid4 returned t for the temp name and p for the public_id
\* (NONE: not drawn)
Issued(t, p) ==
    [ns \in Namespaces |->
        CASE ns = "temp" /\ t # NONE      -> issued[ns] \cup {t}
          [] ns = "public_id" /\ p # NONE -> issued[ns] \cup {p}
          [] OTHER                        -> issued[ns]]

\* The request up to the index held in memory; none of it is seen by another
\* request.  The file name is validated, the temp path is named with a uuid,
\* the content is read (empty content is refused) and written to the temp
\* file; cloudinary.uploader.upload stores the file under public_id
\* "doc_<uuid4>"; PyPDFium2Loader loads it; split_documents splits its text
\* into n chunks (none for a PDF without text); FAISS.from_documents calls
\* the embedding service once and raises when the service fails and when
\* docs is empty.
BuildIndex(r, collide) ==
    /\ up[r].pc = "idle"
    /\ \A other \in Uploads : other < r => up[other].pc # "idle"
    /\ \E filename \in Filenames :
         LET Fail(content, t, p, calls, e) ==
                 up' = [up EXCEPT ![r].pc = "done", ![r].filename = filename,
                                  ![r].content = content, ![r].temp_file_path = t,
                                  ![r].public_id = p, ![r].embed_calls = calls,
                                  ![r].response = upload_except(e)]
         IN
         IF ~IsPdfName(filename)
         THEN /\ Fail("", NONE, NONE, 0, HTTPException(400, "Only PDF files are allowed"))
              /\ UNCHANGED <<issued, temp>>
         ELSE \E t \in uuid4("temp", collide), content \in Contents :
            IF content = "empty"
            THEN /\ Fail(content, t, NONE, 0,
                         HTTPException(400, "Uploaded file is empty or could not be read."))
                 /\ issued' = Issued(t, NONE)
                 /\ UNCHANGED temp
            ELSE
              \/ /\ temp' = temp \cup {t}
                 /\ \E p \in uuid4("public_id", collide) :
                      /\ issued' = Issued(t, p)
                      /\ \/ Fail(content, t, NONE, 0, Error("cloudinary upload failed"))
                         \/ /\ content = "corrupt"
                            /\ Fail(content, t, p, 0,
                                    HTTPException(400, "Failed to load document (PDFium)"))
                         \/ /\ content = "pdf"
                            /\ \E n \in ChunkCounts :
                                 LET docs == split_documents(r, n)
                                 IN  \/ /\ docs # {}
                                        /\ up' = [up EXCEPT ![r].pc = "embedded",
                                                     ![r].filename = filename,
                                                     ![r].content = content,
                                                     ![r].temp_file_path = t,
                                                     ![r].public_id = p, ![r].docs = docs,
                                                     ![r].embed_calls = 1]
                                     \/ /\ docs # {}
                                        /\ Fail(content, t, p, 1, Error("embedding service failed"))
                                     \/ /\ docs = {}
                                        /\ Fail(content, t, p, 1, Error("list index out of range"))
              \/ /\ Fail(content, t, NONE, 0, Error("could not write the temporary file"))
                 /\ issued' = Issued(t, NONE)
                 /\ UNCHANGED temp
    /\ UNCHANGED <<splitter, unique_index, documents_collection, vector_stores, rd>>

\* a path that leaves the public_id out: every index lands in one directory
persistent_pathShared(r) == 1

\* persistent_path = vector_stores/<public_id>
persistent_path(r) == up[r].public_id

\* vector_store.save_local(persistent_path), first file: index.faiss
SaveLocalBegin(r) ==
    /\ up[r].pc = "embedded"
    /\ \/ /\ vector_stores' = [vector_stores EXCEPT
                  ![persistent_path(r)] = [state |-> "partial", chunks |-> up[r].docs]]
          /\ up' = [up EXCEPT ![r].pc = "saving"]
       \/ /\ UpReturn(r, upload_except(Error("save_local failed")))
          /\ UNCHANGED vector_stores
    /\ UNCHANGED <<splitter, unique_index, documents_collection, temp, issued, rd>>

\* save_local going on after the second file could not be written
SaveLocalEndSwallow(r) ==
    /\ up[r].pc = "saving"
    /\ up' = [up EXCEPT ![r].pc = "saved"]
    /\ UNCHANGED <<splitter, unique_index, documents_collection, vector_stores, temp, issued, rd>>

\* save_local, second file: index.pkl; the index is complete once it is written
SaveLocalEnd(r) ==
    /\ up[r].pc = "saving"
    /\ \/ /\ vector_stores' = [vector_stores EXCEPT
                  ![persistent_path(r)] = [state |-> "complete", chunks |-> up[r].docs]]
          /\ up' = [up EXCEPT ![r].pc = "saved"]
       \/ /\ UpReturn(r, upload_except(Error("save_local failed")))
          /\ UNCHANGED vector_stores
    /\ UNCHANGED <<splitter, unique_index, documents_collection, temp, issued, rd>>

\* document_data of request r with document_id d
document_data(r, d) ==
    [document_id       |-> d,
     filename          |-> up[r].filename,
     cloudinary_url    |-> UploadResult(up[r].public_id).secure_url,
     vector_store_path |-> persistent_path(r),
     upload_date       |-> UploadResult(up[r].public_id).created_at]

\* insert_one on a collection: with the unique index a record whose
\* document_id is present is refused (DuplicateKeyError)
DuplicateKey(d) ==
    unique_index /\ \E i \in DOMAIN documents_collection : documents_collection[i].document_id = d

\* document_id = str(uuid.uuid4()); await documents_collection.insert_one(document_data)
InsertOne(r, collide) ==
    /\ up[r].pc = "saved"
    /\ \E d \in uuid4("document_id", collide) :
         /\ issued' = [issued EXCEPT !["document_id"] = @ \cup {d}]
         /\ \/ /\ ~DuplicateKey(d)
               /\ documents_collection' = Append(documents_collection, document_data(r, d))
               /\ up' = [up EXCEPT ![r].pc = "inserted", ![r].document_id = d]
            \/ /\ DuplicateKey(d)
               /\ UNCHANGED documents_collection
               /\ up' = [up EXCEPT ![r].pc = "done", ![r].document_id = d, ![r].docs = {},
                                    ![r].response = upload_except(Error("E11000 duplicate key error"))]
            \/ /\ UNCHANGED documents_collection
               /\ up' = [up EXCEPT ![r].pc = "done", ![r].document_id = d, ![r].docs = {},
                                    ![r].response = upload_except(Error("insert_one failed"))]
    /\ UNCHANGED <<splitter, unique_index, vector_stores, temp, rd>>

\* DocumentResponse(**document_data): the fields of the response model
DocumentResponse(doc) ==
    [document_id |-> doc.document_id, filename |-> doc.filename,
     cloudinary_url |-> doc.cloudinary_url, upload_date |-> doc.upload_date]

\* os.remove(temp_file_path); return DocumentResponse(**document_data)
RemoveAndReturn(r) ==
    /\ up[r].pc = "inserted"
    /\ \/ /\ up[r].temp_file_path \in temp
          /\ temp' = temp \ {up[r].temp_file_path}
          /\ UpReturn(r, Ok(<<DocumentResponse(document_data(r, up[r].document_id))>>))
       \/ /\ UNCHANGED temp
          /\ UpReturn(r, upload_except(Error("os.remove failed")))
    /\ UNCHANGED <<splitter, unique_index, documents_collection, vector_stores, issued, rd>>

upload_document(r, collide) ==
    \/ BuildIndex(r, collide)
    \/ SaveLocalBegin(r)
    \/ SaveLocalEnd(r)
    \/ InsertOne(r, collide)
    \/ RemoveAndReturn(r)

(* --------------------------- query_document --------------------------- *)
\* find_one({"document_id": d}): the first record with that document_id
find_one(d) ==
    LET hits == {i \in DOMAIN documents_collection : documents_collection[i].document_id = d}
    IN  IF hits = {} THEN <<>>
        ELSE <<documents_collection[CHOOSE i \in hits : \A j \in hits : i <= j]>>

\* The request arrives with a document_id; the record is looked up.
FindOne ==
    /\ rd.pc = "idle"
    /\ \E d \in UUIDs :
         LET new == [NoReadLocals EXCEPT !.handler = "query_document", !.document_id = d]
         IN  \/ /\ find_one(d) # <<>>
                /\ rd' = [new EXCEPT !.pc = "found", !.document = find_one(d)]
             \/ /\ find_one(d) = <<>>
                /\ rd' = [new EXCEPT !.pc = "done",
                                     !.response =
                                         query_except(HTTPException(404, "Document not found"))]
             \/ rd' = [new EXCEPT !.pc = "done",
                                  !.response = query_except(Error("find_one failed"))]
    /\ UNCHANGED <<splitter, unique_index, documents_collection, vector_stores, temp, issued, up>>

\* FAISS.load_local(document["vector_store_path"], ...): reads index.faiss
\* and index.pkl; it raises unless both files are there
LoadLocal ==
    /\ rd.pc = "found"
    /\ LET index == vector_stores[rd.document[1].vector_store_path]
       IN  CASE index.state = "complete" ->
                  rd' = [rd EXCEPT !.pc = "loaded", !.index_state = index.state,
                                   !.vector_store = index.chunks]
             [] index.state = "partial" ->
                  rd' = [rd EXCEPT !.pc = "done", !.index_state = index.state,
                                   !.response = query_except(Error("could not read index"))]
             [] OTHER ->
                  rd' = [rd EXCEPT !.pc = "done", !.index_state = index.state,
                                   !.response = query_except(Error("could not open index.faiss"))]
    /\ UNCHANGED <<splitter, unique_index, documents_collection, vector_stores, temp, issued, up>>

\* a search that ignores k
similarity_searchAll(chunks, k) == {chunks}

\* similarity search with k: the k nearest chunks of the index, all of them
\* when the index holds fewer; which ones depends on the embeddings
similarity_search(chunks, k) ==
    {S \in SUBSET chunks : Cardinality(S) = Min(k, Cardinality(chunks))}

\* rag_chain.ainvoke({"input": query}): the retriever embeds the query (one
\* call of the embedding service) and searches the loaded index with k = 3;
\* the document chain calls the LLM once with the retrieved context
ainvoke ==
    /\ rd.pc = "loaded"
    /\ \/ rd' = [rd EXCEPT !.pc = "done", !.embed_calls = @ + 1, !.vector_store = {},
                            !.response = query_except(Error("embedding service failed"))]
       \/ \E S \in similarity_search(rd.vector_store, RetrieverK) :
            \/ rd' = [rd EXCEPT !.pc = "done", !.embed_calls = @ + 1,
                         !.llm_calls = @ + 1, !.context = S, !.vector_store = {},
                         !.response = Ok(<<[document_id |-> rd.document_id,
                                               answer |-> "answer", context |-> S]>>)]
            \/ rd' = [rd EXCEPT !.pc = "done", !.embed_calls = @ + 1,
                         !.llm_calls = @ + 1, !.vector_store = {},
                         !.response = query_except(Error("generation service failed"))]
    /\ UNCHANGED <<splitter, unique_index, documents_collection, vector_stores, temp, issued, up>>

query_document ==
    \/ FindOne
    \/ LoadLocal
    \/ ainvoke

(* --------------------------- list_documents --------------------------- *)
\* find().to_list(length=100): the first 100 records in the collection's order
to_list(length) == SubSeq(documents_collection, 1, Min(length, Len(documents_collection)))

\* a listing that goes on where the listing before it stopped
list_documentsCursor ==
    /\ \/ rd.pc = "idle"
       \/ rd.handler = "list_documents" /\ rd.pc = "done" /\ rd.response.status = 200
             /\ rd.previous = <<>>
    /\ LET skip == IF rd.handler = "list_documents" THEN Len(rd.response.body) ELSE 0
           new  == [NoReadLocals EXCEPT !.handler = "list_documents", !.pc = "done"]
       IN  \/ rd' = [new EXCEPT !.response =
                            Ok([i \in 1..(Len(to_list(ListLimit)) - skip) |->
                                   DocumentResponse(to_list(ListLimit)[i + skip])]),
                        !.ingests = issued["document_id"],
                        !.previous = IF rd.handler = "list_documents"
                                     THEN <<[body |-> rd.response.body, ingests |-> rd.ingests]>>
                                     ELSE <<>>]
           \/ rd' = [new EXCEPT !.response = query_except(Error("find failed"))]
    /\ UNCHANGED <<splitter, unique_index, documents_collection, vector_stores, temp, issued, up>>

\* documents = await find().to_list(length=100);
\* return [DocumentResponse(**doc) for doc in documents]
\* A client that was answered may list once more.
list_documents ==
    /\ \/ rd.pc = "idle"
       \/ rd.handler = "list_documents" /\ rd.pc = "done" /\ rd.response.status = 200
             /\ rd.previous = <<>>
    /\ LET new == [NoReadLocals EXCEPT !.handler = "list_documents", !.pc = "done"]
       IN  \/ rd' = [new EXCEPT !.response = Ok([i \in DOMAIN to_list(ListLimit) |->
                                                  DocumentResponse(to_list(ListLimit)[i])]),
                        !.ingests = issued["document_id"],
                        !.previous = IF rd.handler = "list_documents"
                                     THEN <<[body |-> rd.response.body, ingests |-> rd.ingests]>>
                                     ELSE <<>>]
           \/ rd' = [new EXCEPT !.response = query_except(Error("find failed"))]
    /\ UNCHANGED <<splitter, unique_index, documents_collection, vector_stores, temp, issued, up>>

(* --------------------------- specifications --------------------------- *)
\* uuid4 values never repeat
Next ==
    \/ \E r \in Uploads : upload_document(r, {})
    \/ query_document
    \/ list_documents

Spec == Init /\ [][Next]_vars

\* the uuid4 value of a document_id may repeat
NextCollision ==
    \/ \E r \in Uploads : upload_document(r, {"document_id"})
    \/ query_document
    \/ list_documents

SpecCollision == Init /\ [][NextCollision]_vars

\* the splitter on its own, over every page text within the bounds
NextChunker ==
    \/ load
    \/ split_page

SpecChunker == Init /\ [][NextChunker]_vars

(* ------------------------------ properties ---------------------------- *)
Records == Range(documents_collection)

\* C1: every record of the Registry has a vector_store_path at which a
\* completely written index exists, and no query_document loads a missing
\* or partially written index for a registered document.
C1_RegisteredIndexComplete ==
    /\ \A doc \in Records : vector_stores[doc.vector_store_path].state = "complete"
    /\ rd.index_state \in {"", "complete"}

\* C1 witness: a query has loaded a registered document's index while
\* another upload's index is partially written.
C1_Witness ==
    /\ rd.index_state = "complete"
    /\ \E p \in UUIDs : vector_stores[p].state = "partial"

\* C2: when the index was persisted and insert_one failed, the persisted
\* index is deleted before the failure is reported.
C2_OrphanIndexDeleted ==
    \A r \in Uploads :
        (up[r].pc = "done" /\ up[r].response = upload_except(Error("insert_one failed")))
            => vector_stores[persistent_path(r)].state = "absent"

\* C3: query_document with a document_id that has no record returns the
\* not-found outcome, status 404, not the status 500 of other failures.
C3_NotFoundIs404 ==
    (/\ rd.pc = "done"
     /\ rd.document = <<>>
     /\ rd.response # query_except(Error("find_one failed")))
        => rd.response.status = 404

\* C4: an upload whose document is unreadable (no bytes, or bytes the PDF
\* loader cannot parse) ends with the client error, status 400, and has
\* created neither a record nor a persisted index.
C4_UnreadableRejected ==
    \A r \in Uploads :
        (up[r].pc = "done" /\ up[r].content \in {"empty", "corrupt"})
            => /\ up[r].response.status = 400
               /\ up[r].document_id = NONE
               /\ \A doc \in Records : doc.cloudinary_url # UploadResult(up[r].public_id).secure_url
               /\ up[r].public_id # NONE => vector_stores[persistent_path(r)].state = "absent"

\* C5: the Registry holds at most one record per document_id: an insert
\* with a document_id that is present is refused.
C5_OneRecordPerIdentity ==
    \A i, j \in DOMAIN documents_collection :
        documents_collection[i].document_id = documents_collection[j].document_id => i = j

\* C6: a failure of the Blob Store put does not end the ingest: no upload
\* returns the failure of cloudinary.uploader.upload.
C6_BlobFailureDoesNotBlock ==
    \A r \in Uploads :
        up[r].pc = "done" => up[r].response # upload_except(Error("cloudinary upload failed"))

\* C7: once a record and its index exist, no step changes or removes them
\* (a lookup of the identity keeps returning the record as inserted), and
\* the steps of query_document and list_documents leave the Registry and
\* every persisted index unchanged.
C7_RecordsAndIndexesImmutable ==
    [][/\ \A i \in DOMAIN documents_collection :
            /\ i \in DOMAIN documents_collection'
            /\ documents_collection'[i] = documents_collection[i]
            /\ find_one(documents_collection[i].document_id)'
                   = find_one(documents_collection[i].document_id)
            /\ vector_stores'[documents_collection[i].vector_store_path]
                   = vector_stores[documents_collection[i].vector_store_path]
       /\ (rd' # rd) =>
            /\ documents_collection' = documents_collection
            /\ vector_stores' = vector_stores]_vars

\* C7 witness: two documents are registered, and a read request issued
\* after that has completed.
C7_Witness ==
    /\ Len(documents_collection) >= 2
    /\ rd.pc = "done" /\ rd.response.status = 200

\* C8: no two records have the same vector_store_path, and no ingest writes
\* its index to a location where an index already is.
C8_IndexPerDocument ==
    [][/\ \A i, j \in DOMAIN documents_collection' :
            documents_collection'[i].vector_store_path
                = documents_collection'[j].vector_store_path => i = j
       /\ \A r \in Uploads :
            (up[r].pc = "embedded" /\ up'[r].pc = "saving")
                => vector_stores[persistent_path(r)].state = "absent"]_vars

\* C8 witness: two documents are registered, each with its own complete index.
C8_Witness ==
    /\ Len(documents_collection) >= 2
    /\ \E p1, p2 \in UUIDs :
         /\ p1 # p2
         /\ vector_stores[p1].state = "complete"
         /\ vector_stores[p2].state = "complete"
         /\ \E d1, d2 \in Records : d1.vector_store_path = p1 /\ d2.vector_store_path = p2

\* the context a query handed to answer generation
Retrieved == rd.pc = "done" /\ rd.llm_calls > 0

\* C9: the context of a query on document d holds at most min(3, N) chunks,
\* N the number of chunks of d's index, and every one of them is a chunk of
\* d's own index, made by the upload that registered d.
C9_ContextFromOwnIndex ==
    Retrieved =>
        LET index == vector_stores[rd.document[1].vector_store_path]
        IN  /\ Cardinality(rd.context) <= Min(RetrieverK, Cardinality(index.chunks))
            /\ rd.context \subseteq index.chunks
            /\ \A c \in rd.context : up[c[1]].document_id = rd.document_id

\* C9 witness: with two documents registered, a query on an index of more
\* than 3 chunks has returned 3 of them.
C9_Witness ==
    /\ Len(documents_collection) >= 2
    /\ rd.pc = "done"
    /\ rd.response.status = 200
    /\ Cardinality(rd.context) = RetrieverK
    /\ Cardinality(vector_stores[rd.document[1].vector_store_path].chunks) > RetrieverK

\* C10: a failure of the embedding service or of the generation service is
\* surfaced only after the call has been retried.
C10_RetriedBeforeUnavailable ==
    /\ \A r \in Uploads :
          (up[r].pc = "done" /\ up[r].response = upload_except(Error("embedding service failed")))
              => up[r].embed_calls > 1
    /\ (rd.pc = "done" /\ rd.response = query_except(Error("embedding service failed")))
          => rd.embed_calls > 1
    /\ (rd.pc = "done" /\ rd.response = query_except(Error("generation service failed")))
          => rd.llm_calls > 1

\* the error code a caller gets: the HTTP status.  The detail of a 500 is
\* the text of whatever exception was caught, not a code.
ErrorCode(response) == response.status

\* C11: after a successful lookup, a missing index, an unreadable index
\* and a failure of the generation service give the caller three
\* different error codes.
C11_DistinctFailureCodes ==
    (rd.pc = "done" /\ rd.response = query_except(Error("generation service failed")))
        => LET generation == ErrorCode(rd.response)
               missing    == ErrorCode(query_except(Error("could not open index.faiss")))
               corrupt    == ErrorCode(query_except(Error("could not read index")))
           IN  /\ generation # missing
               /\ generation # corrupt
               /\ missing # corrupt

\* two listings, each answered with the records, and no ingest has reached
\* insert_one between them
TwoListings ==
    /\ rd.handler = "list_documents"
    /\ rd.pc = "done"
    /\ rd.response.status = 200
    /\ rd.previous # <<>>
    /\ rd.previous[1].ingests = rd.ingests

Ceil(a, b) == (a + b - 1) \div b

\* C13: the chunks of a text of length L > 0 have the length of the text
\* between them (nothing of the text is left out), none is longer than
\* chunk_size, and there are ceil((L - chunk_overlap) / (chunk_size -
\* chunk_overlap)) of them.
C13_FixedSizeChunks ==
    (splitter.pc = "done" /\ length_function(splitter.text) > 0)
        => LET L == length_function(splitter.text)
           IN  /\ Sum([i \in DOMAIN splitter.docs |-> length_function(splitter.docs[i])])
                      - chunk_overlap * (Len(splitter.docs) - 1) = L
               /\ \A i \in DOMAIN splitter.docs :
                      length_function(splitter.docs[i]) <= chunk_size
               /\ Len(splitter.docs) = Ceil(L - chunk_overlap, chunk_size - chunk_overlap)

\* C14: an upload that ended with an error response has left no record in
\* the Registry.
C14_ErrorMeansNoRecord ==
    \A r \in Uploads :
        (up[r].pc = "done" /\ up[r].response.status # 200)
            => \A doc \in Records :
                  /\ doc.document_id # up[r].document_id
                  /\ up[r].public_id # NONE => doc.vector_store_path # persistent_path(r)

\* C15: when an upload has completed, with a record or with an error, the
\* temporary file it wrote under temp/ is gone.
C15_TempFileRemoved ==
    \A r \in Uploads : up[r].pc = "done" => up[r].temp_file_path \notin temp

====
